---- MODULE Spec2Model ----
(***************************************************************************)
(* Model of package ghec (enhancement.go): the enhancement configuration,  *)
(* its With* builder steps, the previous-enhancement counter helpers and   *)
(* the Cost computation with its three cost tables.                        *)
(***************************************************************************)
EXTENDS Integers, Sequences, FiniteSets, TLC

(* ---------------- bounds of the explored inputs ---------------- *)
\* inputs range over the valid values and a margin of invalid ones on each
\* side: types -TypesBelow..MaxType, levels (1 - LevelsBelow)..MaxLevel,
\* multipliers -TargetsBelow..MaxTarget, counts -PreviousBelow..MaxPrevious
TypesBelow == 1
MaxType == 26
LevelsBelow == 1
MaxLevel == 10
TargetsBelow == 2
MaxTarget == 5
PreviousBelow == 1
MaxPrevious == 4

TypeInputs == (0 - TypesBelow)..MaxType
LevelInputs == (1 - LevelsBelow)..MaxLevel
TargetInputs == (0 - TargetsBelow)..MaxTarget
PreviousInputs == (0 - PreviousBelow)..MaxPrevious

(* ---------------- BaseEnhancement enumeration (iota) ---------------- *)
EnhanceMove == 0
EnhanceJump == 1
EnhanceAttack == 2
EnhanceRange == 3
EnhanceTarget == 4
EnhanceAddAttackHex == 5
EnhanceHeal == 6
EnhanceShield == 7
EnhanceRetaliate == 8
EnhanceStrengthen == 9
EnhanceMuddle == 10
EnhanceDisarm == 11
EnhancePierce == 12
EnhancePoison == 13
EnhanceWound == 14
EnhancePush == 15
EnhancePull == 16
EnhanceImmobilize == 17
EnhanceCurse == 18
EnhanceBless == 19
EnhanceSpecificElement == 20
EnhanceAnyElement == 21
EnhanceSummonsMove == 22
EnhanceSummonsAttack == 23
EnhanceSummonsRange == 24
EnhanceSummonsHP == 25

Level1 == 1
Level2 == 2
Level3 == 3
Level4 == 4
Level5 == 5
Level6 == 6
Level7 == 7
Level8 == 8
Level9 == 9

PreviousEnhancements0 == 0
PreviousEnhancements1 == 1
PreviousEnhancements2 == 2
PreviousEnhancements3 == 3

(* ---------------- Go integer arithmetic ---------------- *)
Abs(x) == IF x < 0 THEN -x ELSE x

\* Go's / on ints truncates toward zero (b # 0).
GoDiv(a, b) ==
    IF (a < 0) = (b < 0) THEN Abs(a) \div Abs(b) ELSE -(Abs(a) \div Abs(b))

\* Go's % on ints: the remainder has the sign of the dividend.
GoRem(a, b) == a - b * GoDiv(a, b)

(* ---------------- results of the (Cost, error) functions ---------------- *)
Ok(c) == [cost |-> c, err |-> "nil"]
Fail(e) == [cost |-> 0, err |-> e]

(* ---------------- the enhancement struct and its builder ---------------- *)
NewEnhancement_zeroTarget(baseEnhancement) ==
    [baseEnhancement |-> baseEnhancement,
     level |-> Level1,
     multipleTarget |-> 0,
     previousEnhancements |-> PreviousEnhancements0]

NewEnhancement(baseEnhancement) ==
    [baseEnhancement |-> baseEnhancement,
     level |-> Level1,
     multipleTarget |-> 1,
     previousEnhancements |-> PreviousEnhancements0]

WithMultipleTarget(e, multipleTarget) ==
    [e EXCEPT !.multipleTarget = multipleTarget]

WithLevel_clamped(e, level) ==
    [e EXCEPT !.level = IF level < 1 THEN 1 ELSE IF level > 9 THEN 9 ELSE level]

WithLevel_resetsTarget(e, level) ==
    [e EXCEPT !.level = level, !.multipleTarget = 1]

WithLevel(e, level) ==
    [e EXCEPT !.level = level]

WithPreviousEnhancements(e, previousEnhancements) ==
    [e EXCEPT !.previousEnhancements = previousEnhancements]

DecrementPrevious(p) == GoRem(p - 1 + 4, 4)

IncrementPrevious_noWrap(p) == GoRem(p + 1, 5)

IncrementPrevious(p) == GoRem(p + 1, 4)

(* ---------------- the three cost tables ---------------- *)
UndoubledCost(be) ==
    CASE be = EnhanceMove -> 30
      [] be = EnhanceAttack -> 50
      [] be = EnhanceRange -> 30
      [] be = EnhanceShield -> 100
      [] be = EnhancePush -> 30
      [] be = EnhancePull -> 30
      [] be = EnhancePierce -> 30
      [] be = EnhanceRetaliate -> 100
      [] be = EnhanceHeal -> 30
      [] be = EnhanceTarget -> 50
      [] be = EnhancePoison -> 75
      [] be = EnhanceWound -> 75
      [] be = EnhanceMuddle -> 50
      [] be = EnhanceImmobilize -> 100
      [] be = EnhanceDisarm -> 150
      [] be = EnhanceCurse -> 75
      [] be = EnhanceStrengthen -> 50
      [] be = EnhanceBless -> 50
      [] be = EnhanceJump -> 50
      [] be = EnhanceSpecificElement -> 100
      [] be = EnhanceAnyElement -> 150

DoubledTypes ==
    {EnhanceMove, EnhanceAttack, EnhanceRange, EnhanceShield, EnhancePush,
     EnhancePull, EnhancePierce, EnhanceRetaliate, EnhanceHeal, EnhanceTarget,
     EnhancePoison, EnhanceWound, EnhanceMuddle, EnhanceImmobilize,
     EnhanceDisarm, EnhanceCurse, EnhanceStrengthen, EnhanceBless, EnhanceJump,
     EnhanceSpecificElement, EnhanceAnyElement}

costForBaseEnhancement_doubleFromOne(e) ==
    CASE e.baseEnhancement = EnhanceAddAttackHex ->
            IF e.multipleTarget = 0 THEN Fail("hexzero")
            ELSE Ok(GoDiv(200, e.multipleTarget))
      [] e.baseEnhancement \in DoubledTypes ->
            IF e.multipleTarget >= 1
            THEN Ok(2 * UndoubledCost(e.baseEnhancement))
            ELSE Ok(UndoubledCost(e.baseEnhancement))
      [] e.baseEnhancement = EnhanceSummonsMove -> Ok(100)
      [] e.baseEnhancement = EnhanceSummonsAttack -> Ok(100)
      [] e.baseEnhancement = EnhanceSummonsRange -> Ok(50)
      [] e.baseEnhancement = EnhanceSummonsHP -> Ok(50)
      [] OTHER -> Fail("unknown")

costForBaseEnhancement_hexDoubled(e) ==
    CASE e.baseEnhancement = EnhanceAddAttackHex ->
            IF e.multipleTarget = 0 THEN Fail("hexzero")
            ELSE IF e.multipleTarget > 1
                 THEN Ok(2 * GoDiv(200, e.multipleTarget))
                 ELSE Ok(GoDiv(200, e.multipleTarget))
      [] e.baseEnhancement \in DoubledTypes ->
            IF e.multipleTarget > 1
            THEN Ok(2 * UndoubledCost(e.baseEnhancement))
            ELSE Ok(UndoubledCost(e.baseEnhancement))
      [] e.baseEnhancement = EnhanceSummonsMove -> Ok(100)
      [] e.baseEnhancement = EnhanceSummonsAttack -> Ok(100)
      [] e.baseEnhancement = EnhanceSummonsRange -> Ok(50)
      [] e.baseEnhancement = EnhanceSummonsHP -> Ok(50)
      [] OTHER -> Fail("unknown")

costForBaseEnhancement_unknownIsFree(e) ==
    CASE e.baseEnhancement = EnhanceAddAttackHex ->
            IF e.multipleTarget = 0 THEN Fail("hexzero")
            ELSE Ok(GoDiv(200, e.multipleTarget))
      [] e.baseEnhancement \in DoubledTypes ->
            IF e.multipleTarget > 1
            THEN Ok(2 * UndoubledCost(e.baseEnhancement))
            ELSE Ok(UndoubledCost(e.baseEnhancement))
      [] e.baseEnhancement = EnhanceSummonsMove -> Ok(100)
      [] e.baseEnhancement = EnhanceSummonsAttack -> Ok(100)
      [] e.baseEnhancement = EnhanceSummonsRange -> Ok(50)
      [] e.baseEnhancement = EnhanceSummonsHP -> Ok(50)
      [] OTHER -> Ok(0)

costForBaseEnhancement(e) ==
    CASE e.baseEnhancement = EnhanceAddAttackHex ->
            IF e.multipleTarget = 0 THEN Fail("hexzero")
            ELSE Ok(GoDiv(200, e.multipleTarget))
      [] e.baseEnhancement \in DoubledTypes ->
            IF e.multipleTarget > 1
            THEN Ok(2 * UndoubledCost(e.baseEnhancement))
            ELSE Ok(UndoubledCost(e.baseEnhancement))
      [] e.baseEnhancement = EnhanceSummonsMove -> Ok(100)
      [] e.baseEnhancement = EnhanceSummonsAttack -> Ok(100)
      [] e.baseEnhancement = EnhanceSummonsRange -> Ok(50)
      [] e.baseEnhancement = EnhanceSummonsHP -> Ok(50)
      [] OTHER -> Fail("unknown")

costForLevel_offByOne(level) ==
    CASE level = Level1 -> Ok(0)
      [] level = Level2 -> Ok(25)
      [] level = Level3 -> Ok(50)
      [] level = Level4 -> Ok(75)
      [] level = Level5 -> Ok(100)
      [] level = Level6 -> Ok(125)
      [] level = Level7 -> Ok(150)
      [] level = Level8 -> Ok(175)
      [] level = Level9 -> Ok(175)
      [] OTHER -> Fail("level")

costForLevel(level) ==
    CASE level = Level1 -> Ok(0)
      [] level = Level2 -> Ok(25)
      [] level = Level3 -> Ok(50)
      [] level = Level4 -> Ok(75)
      [] level = Level5 -> Ok(100)
      [] level = Level6 -> Ok(125)
      [] level = Level7 -> Ok(150)
      [] level = Level8 -> Ok(175)
      [] level = Level9 -> Ok(200)
      [] OTHER -> Fail("level")

costForPreviousEnhancements(previousEnhancements) ==
    CASE previousEnhancements = PreviousEnhancements0 -> Ok(0)
      [] previousEnhancements = PreviousEnhancements1 -> Ok(75)
      [] previousEnhancements = PreviousEnhancements2 -> Ok(150)
      [] previousEnhancements = PreviousEnhancements3 -> Ok(225)
      [] OTHER -> Fail("previous")

(* ---------------- Cost ---------------- *)
Cost_previousFirst(e) ==
    IF e.previousEnhancements < 0 \/ e.previousEnhancements > 3
    THEN Fail("previous")
    ELSE IF e.level < 1 \/ e.level > 9 THEN Fail("level")
    ELSE LET base == costForBaseEnhancement(e) IN
         IF base.err # "nil" THEN Fail(base.err)
         ELSE LET levelCost == costForLevel(e.level) IN
              IF levelCost.err # "nil" THEN Fail(levelCost.err)
              ELSE LET previousEnhancementCost ==
                           costForPreviousEnhancements(e.previousEnhancements) IN
                   IF previousEnhancementCost.err # "nil"
                   THEN Fail(previousEnhancementCost.err)
                   ELSE Ok(base.cost + levelCost.cost
                             + previousEnhancementCost.cost)

Cost(e) ==
    IF e.level < 1 \/ e.level > 9 THEN Fail("level")
    ELSE IF e.previousEnhancements < 0 \/ e.previousEnhancements > 3
    THEN Fail("previous")
    ELSE LET base == costForBaseEnhancement(e) IN
         IF base.err # "nil" THEN Fail(base.err)
         ELSE LET levelCost == costForLevel(e.level) IN
              IF levelCost.err # "nil" THEN Fail(levelCost.err)
              ELSE LET previousEnhancementCost ==
                           costForPreviousEnhancements(e.previousEnhancements) IN
                   IF previousEnhancementCost.err # "nil"
                   THEN Fail(previousEnhancementCost.err)
                   ELSE Ok(base.cost + levelCost.cost
                             + previousEnhancementCost.cost)

(* ---------------- state ---------------- *)
\* cur  : the enhancement value at the head of the call chain
\*        NewEnhancement(t).With...(), i.e. the value the last call returned
\*        (for Cost, which returns no enhancement, its receiver);
\* recv : the receiver of the last call as the caller sees it after the call;
\* op   : the last call and its argument;
\* res  : the (Cost, error) pair returned by Cost, once called;
\* prev : a PreviousEnhancements counter the caller steps with
\*        IncrementPrevious / DecrementPrevious.
VARIABLES cur, recv, op, res, prev
vars == <<cur, recv, op, res, prev>>

NoResult == [cost |-> 0, err |-> "pending"]

Init ==
    /\ \E t \in TypeInputs : cur = NewEnhancement(t)
    /\ recv = cur
    /\ op = [name |-> "NewEnhancement", arg |-> cur.baseEnhancement]
    /\ res = NoResult
    /\ prev = PreviousEnhancements0

InitCounter ==
    /\ \E t \in TypeInputs : cur = NewEnhancement(t)
    /\ recv = cur
    /\ op = [name |-> "NewEnhancement", arg |-> cur.baseEnhancement]
    /\ res = NoResult
    /\ prev \in PreviousEnhancements0..PreviousEnhancements3

Pending == res = NoResult

WithMultipleTargetStep ==
    /\ Pending
    /\ \E n \in TargetInputs :
          /\ cur' = WithMultipleTarget(cur, n)
          /\ op' = [name |-> "WithMultipleTarget", arg |-> n]
    /\ recv' = cur
    /\ UNCHANGED <<res, prev>>

WithLevelStep ==
    /\ Pending
    /\ \E n \in LevelInputs :
          /\ cur' = WithLevel(cur, n)
          /\ op' = [name |-> "WithLevel", arg |-> n]
    /\ recv' = cur
    /\ UNCHANGED <<res, prev>>

WithPreviousEnhancementsStep ==
    /\ Pending
    /\ \E n \in PreviousInputs :
          /\ cur' = WithPreviousEnhancements(cur, n)
          /\ op' = [name |-> "WithPreviousEnhancements", arg |-> n]
    /\ recv' = cur
    /\ UNCHANGED <<res, prev>>

\* e.WithPreviousEnhancements(prev) with the caller's counter as argument
WithCounterStep ==
    /\ Pending
    /\ cur' = WithPreviousEnhancements(cur, prev)
    /\ op' = [name |-> "WithPreviousEnhancements", arg |-> prev]
    /\ recv' = cur
    /\ UNCHANGED <<res, prev>>

IncrementPreviousStep ==
    /\ Pending
    /\ prev' = IncrementPrevious(prev)
    /\ op' = [name |-> "IncrementPrevious", arg |-> prev]
    /\ UNCHANGED <<cur, recv, res>>

DecrementPreviousStep ==
    /\ Pending
    /\ prev' = DecrementPrevious(prev)
    /\ op' = [name |-> "DecrementPrevious", arg |-> prev]
    /\ UNCHANGED <<cur, recv, res>>

CostStep ==
    /\ Pending
    /\ res' = Cost(cur)
    /\ op' = [name |-> "Cost", arg |-> 0]
    /\ recv' = cur
    /\ UNCHANGED <<cur, prev>>

Next ==
    \/ WithMultipleTargetStep
    \/ WithLevelStep
    \/ WithPreviousEnhancementsStep
    \/ CostStep

Spec == Init /\ [][Next]_vars

NextCounter ==
    \/ IncrementPreviousStep
    \/ DecrementPreviousStep
    \/ WithCounterStep
    \/ WithLevelStep
    \/ CostStep

SpecCounter == InitCounter /\ [][NextCounter]_vars

TypeOK ==
    /\ cur.baseEnhancement \in TypeInputs
    /\ op.name \in {"NewEnhancement", "WithMultipleTarget", "WithLevel",
                    "WithPreviousEnhancements", "IncrementPrevious",
                    "DecrementPrevious", "Cost"}

(* ======================= the documented pricing table ======================= *)
DefinedTypes == EnhanceMove..EnhanceSummonsHP

SummonsTypes ==
    {EnhanceSummonsMove, EnhanceSummonsAttack, EnhanceSummonsRange,
     EnhanceSummonsHP}

OrdinaryTypes == (DefinedTypes \ SummonsTypes) \ {EnhanceAddAttackHex}

\* base cost of the pricing table, before any doubling
TableCost(t) ==
    IF t \in {EnhanceMove, EnhanceRange, EnhancePush, EnhancePull,
              EnhancePierce, EnhanceHeal} THEN 30
    ELSE IF t \in {EnhanceAttack, EnhanceTarget, EnhanceMuddle,
                   EnhanceStrengthen, EnhanceBless, EnhanceJump} THEN 50
    ELSE IF t \in {EnhanceShield, EnhanceRetaliate, EnhanceImmobilize,
                   EnhanceSpecificElement} THEN 100
    ELSE IF t \in {EnhancePoison, EnhanceWound, EnhanceCurse} THEN 75
    ELSE IF t \in {EnhanceDisarm, EnhanceAnyElement} THEN 150
    ELSE IF t \in {EnhanceSummonsMove, EnhanceSummonsAttack} THEN 100
    ELSE IF t \in {EnhanceSummonsRange, EnhanceSummonsHP} THEN 50
    ELSE 200

\* 200 / k rounded toward zero, k # 0
TruncatedHexCost(k) ==
    CHOOSE q \in -200..200 :
        /\ Abs(q) * Abs(k) <= 200
        /\ 200 < (Abs(q) + 1) * Abs(k)
        /\ (q # 0 => ((q > 0) = (k > 0)))

TableBaseCost(t, m) ==
    IF t = EnhanceAddAttackHex THEN TruncatedHexCost(m)
    ELSE IF t \in SummonsTypes THEN TableCost(t)
    ELSE IF m > 1 THEN 2 * TableCost(t)
    ELSE TableCost(t)

LevelInRange(e) == e.level >= 1 /\ e.level <= 9
PreviousInRange(e) == e.previousEnhancements >= 0 /\ e.previousEnhancements <= 3
CostCalled == op.name = "Cost"

(* ================================ claims ================================ *)

\* C1: for every defined type, level in 1..9, previous count in 0..3 and
\* multiplier (non-zero for Add Attack Hex), Cost() succeeds and returns
\* table base cost + 25*(level-1) + 75*previous count.
C1_TotalCostFormula ==
    (/\ CostCalled
     /\ cur.baseEnhancement \in DefinedTypes
     /\ LevelInRange(cur)
     /\ PreviousInRange(cur)
     /\ (cur.baseEnhancement = EnhanceAddAttackHex => cur.multipleTarget # 0))
    => /\ res.err = "nil"
       /\ res.cost = TableBaseCost(cur.baseEnhancement, cur.multipleTarget)
                       + 25 * (cur.level - 1)
                       + 75 * cur.previousEnhancements

C1_Witness ==
    /\ CostCalled
    /\ cur.baseEnhancement = EnhanceDisarm
    /\ cur.multipleTarget = 2
    /\ cur.level = 9
    /\ cur.previousEnhancements = 3
    /\ res = Ok(725)

\* C2: multi-target rule on the base cost: for ordinary types a multiplier
\* > 1 costs exactly twice the multiplier-1 cost and a multiplier <= 1 costs
\* the same as multiplier 1; for the Summons* types every multiplier costs
\* the same.  Stated on costForBaseEnhancement and on Cost() at level 1 with
\* no previous enhancement.
C2_MultiTargetRule ==
    LET t == cur.baseEnhancement
        one == WithMultipleTarget(cur, 1)
        base == costForBaseEnhancement(cur)
        baseOne == costForBaseEnhancement(one)
        Rule(c, cOne) ==
            /\ c.err = "nil"
            /\ cOne.err = "nil"
            /\ cOne.cost > 0
            /\ IF t \in OrdinaryTypes /\ cur.multipleTarget > 1
               THEN c.cost = 2 * cOne.cost
               ELSE c.cost = cOne.cost
    IN  (t \in OrdinaryTypes \cup SummonsTypes) =>
          /\ Rule(base, baseOne)
          /\ (CostCalled /\ cur.level = 1 /\ cur.previousEnhancements = 0)
                => Rule(res, Cost(one))

C2_Witness ==
    /\ CostCalled
    /\ cur.baseEnhancement = EnhancePoison
    /\ cur.multipleTarget = 3
    /\ cur.level = 1
    /\ cur.previousEnhancements = 0
    /\ res = Ok(150)

\* C3: for Add Attack Hex the multiplier is the hex count k: k = 0 makes
\* Cost() return the division-by-zero error; k in {1,2,4,5} gives base cost
\* 200, 100, 50, 40; for k >= 1 the base cost is 200 div k, never doubled.
C3_AddAttackHex ==
    LET k == cur.multipleTarget
        base == costForBaseEnhancement(cur)
    IN  cur.baseEnhancement = EnhanceAddAttackHex =>
          /\ (k = 0 => base = Fail("hexzero"))
          /\ (k >= 1 => base = Ok(200 \div k))
          /\ (k = 1 => base.cost = 200)
          /\ (k = 2 => base.cost = 100)
          /\ (k = 4 => base.cost = 50)
          /\ (k = 5 => base.cost = 40)
          /\ (CostCalled /\ LevelInRange(cur) /\ PreviousInRange(cur)) =>
                /\ (k = 0 => res = Fail("hexzero"))
                /\ (k >= 1 => res = Ok((200 \div k) + 25 * (cur.level - 1)
                                         + 75 * cur.previousEnhancements))

C3_Witness ==
    /\ CostCalled
    /\ cur.baseEnhancement = EnhanceAddAttackHex
    /\ cur.multipleTarget = 0
    /\ LevelInRange(cur)
    /\ PreviousInRange(cur)
    /\ res.err = "hexzero"

\* C4: WithLevel and WithPreviousEnhancements store any integer unchanged
\* (no validation, no clamping); Cost() returns an out-of-range error with
\* cost 0 whenever the level is outside 1..9 or the previous count is
\* outside 0..3, for every type and multiplier.
C4_DeferredRangeValidation ==
    /\ (op.name = "WithLevel" => cur.level = op.arg)
    /\ (op.name = "WithPreviousEnhancements"
          => cur.previousEnhancements = op.arg)
    /\ (CostCalled /\ (~LevelInRange(cur) \/ ~PreviousInRange(cur)))
          => /\ res.err \in {"level", "previous"}
             /\ res.cost = 0

C4_Witness ==
    /\ CostCalled
    /\ cur.level = 10
    /\ PreviousInRange(cur)
    /\ cur.baseEnhancement \in DefinedTypes
    /\ res = Fail("level")

\* C5: with level and previous count in range, Cost() on an enhancement type
\* outside the enumeration returns the unknown-type error, never a success.
C5_UnknownType ==
    (/\ CostCalled
     /\ LevelInRange(cur)
     /\ PreviousInRange(cur)
     /\ cur.baseEnhancement \notin DefinedTypes)
    => res = Fail("unknown")

C5_Witness ==
    /\ CostCalled
    /\ LevelInRange(cur)
    /\ PreviousInRange(cur)
    /\ cur.baseEnhancement \notin DefinedTypes
    /\ cur.level > 1
    /\ res.err = "unknown"

\* C6: whenever Cost() returns without error the returned cost is >= 0, for
\* every configuration reachable through NewEnhancement and With* steps.
C6_CostNonNegative ==
    (CostCalled /\ res.err = "nil") => res.cost >= 0

\* C7: NewEnhancement(t) has level 1, previous count 0 and a multiplier
\* meaning "no multiplier": for every defined type Cost() on it succeeds with
\* the undoubled table cost and no surcharge (200 for Add Attack Hex).
C7_NewDefaults ==
    op.name = "NewEnhancement" =>
        /\ cur.baseEnhancement = op.arg
        /\ cur.level = 1
        /\ cur.previousEnhancements = 0
        /\ (cur.baseEnhancement \in DefinedTypes
              => Cost(cur) = Ok(TableCost(cur.baseEnhancement)))

C7_Witness ==
    /\ op.name = "NewEnhancement"
    /\ cur.baseEnhancement = EnhanceAddAttackHex
    /\ Cost(cur) = Ok(200)

\* C8: each With* step returns a configuration that differs from its
\* receiver only in the field it sets and leaves the receiver unchanged;
\* steps on different fields commute (same configuration, same Cost()) and
\* of two steps on one field the later one determines the value.
C8_Frame ==
    /\ (op'.name = "WithLevel") =>
          /\ recv' = cur
          /\ cur'.level = op'.arg
          /\ cur'.baseEnhancement = cur.baseEnhancement
          /\ cur'.multipleTarget = cur.multipleTarget
          /\ cur'.previousEnhancements = cur.previousEnhancements
    /\ (op'.name = "WithMultipleTarget") =>
          /\ recv' = cur
          /\ cur'.multipleTarget = op'.arg
          /\ cur'.baseEnhancement = cur.baseEnhancement
          /\ cur'.level = cur.level
          /\ cur'.previousEnhancements = cur.previousEnhancements
    /\ (op'.name = "WithPreviousEnhancements") =>
          /\ recv' = cur
          /\ cur'.previousEnhancements = op'.arg
          /\ cur'.baseEnhancement = cur.baseEnhancement
          /\ cur'.level = cur.level
          /\ cur'.multipleTarget = cur.multipleTarget

\* the step just taken (receiver recv, result cur), done after instead of
\* before a step on another field
C8_Commute ==
    /\ (op.name = "WithLevel") =>
          /\ \A m \in TargetInputs :
                LET a == WithMultipleTarget(cur, m)
                    b == WithLevel(WithMultipleTarget(recv, m), op.arg)
                IN  a = b /\ Cost(a) = Cost(b)
          /\ \A p \in PreviousInputs :
                LET a == WithPreviousEnhancements(cur, p)
                    b == WithLevel(WithPreviousEnhancements(recv, p), op.arg)
                IN  a = b /\ Cost(a) = Cost(b)
    /\ (op.name = "WithMultipleTarget") =>
          /\ \A l \in LevelInputs :
                LET a == WithLevel(cur, l)
                    b == WithMultipleTarget(WithLevel(recv, l), op.arg)
                IN  a = b /\ Cost(a) = Cost(b)
          /\ \A p \in PreviousInputs :
                LET a == WithPreviousEnhancements(cur, p)
                    b == WithMultipleTarget(WithPreviousEnhancements(recv, p),
                                            op.arg)
                IN  a = b /\ Cost(a) = Cost(b)
    /\ (op.name = "WithPreviousEnhancements") =>
          /\ \A l \in LevelInputs :
                LET a == WithLevel(cur, l)
                    b == WithPreviousEnhancements(WithLevel(recv, l), op.arg)
                IN  a = b /\ Cost(a) = Cost(b)
          /\ \A m \in TargetInputs :
                LET a == WithMultipleTarget(cur, m)
                    b == WithPreviousEnhancements(WithMultipleTarget(recv, m),
                                                  op.arg)
                IN  a = b /\ Cost(a) = Cost(b)

C8_WithStepsFrame == [][C8_Frame]_vars /\ []C8_Commute

C8_Witness ==
    /\ op.name = "WithLevel"
    /\ recv.level \notin {1, cur.level}
    /\ recv.multipleTarget # 1
    /\ recv.previousEnhancements # 0
    /\ cur.level = op.arg
    /\ cur.multipleTarget = recv.multipleTarget

\* C9: Cost() validates level first, then previous count, then base cost: a
\* level outside 1..9 yields the level error whatever else is wrong, and a
\* valid level with previous count outside 0..3 yields the previous-count
\* error even for an unknown type or a zero hex count.
C9_ValidationOrder ==
    CostCalled =>
        /\ (~LevelInRange(cur) => res.err = "level")
        /\ (LevelInRange(cur) /\ ~PreviousInRange(cur)
              => res.err = "previous")

C9_Witness ==
    /\ CostCalled
    /\ ~LevelInRange(cur)
    /\ ~PreviousInRange(cur)
    /\ cur.baseEnhancement \notin DefinedTypes
    /\ res.err = "level"

\* C10: starting from a count in 0..3, any sequence of IncrementPrevious and
\* DecrementPrevious keeps the count in 0..3 (increment wraps 3 to 0,
\* decrement wraps 0 to 3, otherwise +1 / -1), so Cost() never rejects such
\* a count as out of range.
C10_CounterStaysInRange ==
    /\ prev \in 0..3
    /\ (op.name = "IncrementPrevious"
          => prev = IF op.arg = 3 THEN 0 ELSE op.arg + 1)
    /\ (op.name = "DecrementPrevious"
          => prev = IF op.arg = 0 THEN 3 ELSE op.arg - 1)
    /\ PreviousInRange(cur)
    /\ (CostCalled => res.err # "previous")

C10_Witness ==
    /\ CostCalled
    /\ cur.previousEnhancements = 3
    /\ recv.previousEnhancements = 3
    /\ prev = 0
    /\ res.err = "nil"
====
